---- MODULE Spec2Model ----
(***************************************************************************)
(* The bitswap speed-test plan (testplans/bitswap/main.go): every instance *)
(* of a run executes runSpeedTest, which shapes the network, creates a     *)
(* libp2p host and dispatches on its group to runProvide or runRequest.    *)
(* The instances coordinate only through the sync service: barriers        *)
(* (states with a signal counter) and topics (append-only logs that every  *)
(* subscriber reads from the first entry on).                              *)
(***************************************************************************)
EXTENDS Integers, Sequences, FiniteSets, TLC

\* ---- bounds of the model ------------------------------------------------
NumInstances == 3       \* runenv.TestInstanceCount of the modelled runs
MaxProviders == 2       \* most instances of the group "providers"
MaxBlocks == 2          \* largest block_count parameter
MaxProviderCount == 2   \* largest provider_count parameter
NumContents == 2        \* distinct byte strings rand.Read can produce
MaxFaults == 1          \* collaborator failures injected in one run

Instances == 1..NumInstances
Contents == 1..NumContents

VARIABLES
  role,           \* runenv.TestGroupID of each instance
  blockCount,     \* runenv.IntParam("block_count")
  providerCount,  \* runenv.IntParam("provider_count")
  pc,             \* the statement each instance executes next
  err,            \* the error runSpeedTest returned (NoError: nil)
  host,           \* the libp2p host h: "none", "open", "closed"
  netreq,         \* network config handed to the sidecar (MustConfigureNetwork)
  signals,        \* sync service: signal entries per barrier state and instance
  providerTopic,  \* sync service: entries of topic "provider"
  blockTopic,     \* sync service: entries of topic "blocks"
  bstore,         \* the blockstore of each instance (blocks, keyed by hash)
  idx,            \* the loop variable i of the running loop
  blk,            \* provider: the block made in this iteration (0: none)
  generated,      \* provider: multihashes of the blocks Put so far, in order
  ai,             \* requestor: the AddrInfo last received (0: none)
  conns,          \* requestor: peers h.Connect succeeded for, in order
  bsub,           \* requestor: subscribed to the block topic
  recvd,          \* requestor: entries received from blkmhs, in order
  log,            \* requestor: bstats messages recorded, in order
  nfaults         \* failures injected so far

vars == <<role, blockCount, providerCount, pc, err, host, netreq, signals,
          providerTopic, blockTopic, bstore, idx, blk, generated, ai, conns,
          bsub, recvd, log, nfaults>>

\* ---- values ---------------------------------------------------------------
networkState == "network-configured"
readyState == "ready-to-publish"
readyDLState == "ready-to-download"
doneState == "done"
States == {networkState, readyState, readyDLState, doneState}

\* The error values of the plan. fmt.Errorf keeps the message, the
\* formatted arguments and the wrapped cause.
\* (peer: the peer the wrapped cause names, 0 if it names none.)
NoError == [msg |-> "", index |-> -1, mh |-> <<>>, cause |-> "", peer |-> 0]
PlainError(m) == [msg |-> m, index |-> -1, mh |-> <<>>, cause |-> "", peer |-> 0]
WrapError(m, c) == [msg |-> m, index |-> -1, mh |-> <<>>, cause |-> c, peer |-> 0]
BlockError(m, i, h, c) ==
  [msg |-> m, index |-> i, mh |-> h, cause |-> c, peer |-> 0]
\* fmt.Errorf("could not connect to provider: %w", err): the message names
\* no provider; the error of h.Connect may name the peer p it dialled.
ConnectError(p) ==
  [msg |-> "could not connect to provider", index |-> -1, mh |-> <<>>,
   cause |-> "connect", peer |-> p]

\* blk.Multihash(): the sha2-256 multihash of the block's bytes
\* (collision-free on the modelled contents).
Multihash(buf) == <<"mh", buf>>
\* cid.NewCidV0(mh), and blk.Cid() of a block made by block.NewBlock.
NewCidV0(mh) == <<"cidv0", mh>>
Cid(buf) == NewCidV0(Multihash(buf))

RECURSIVE SumOver(_, _)
SumOver(f, S) ==
  IF S = {} THEN 0
  ELSE LET x == CHOOSE y \in S : TRUE IN f[x] + SumOver(f, S \ {x})

\* The counter of a barrier state: the number of signal entries on it.
Count(state) == SumOver(signals[state], Instances)

TestInstanceCount == Cardinality(Instances)
TestGroupInstanceCount(i) == Cardinality({j \in Instances : role[j] = role[i]})

\* The groups of a run: np providers, nr requestors, the rest in a group
\* the plan does not know.
GroupOf(i, np, nr) ==
  IF i <= np THEN "providers"
  ELSE IF i <= np + nr THEN "requestors" ELSE "other"

Init ==
  /\ \E np \in 0..MaxProviders : \E nr \in 0..(NumInstances - np) :
       role = [i \in Instances |-> GroupOf(i, np, nr)]
  /\ blockCount \in 0..MaxBlocks
  /\ providerCount \in 0..MaxProviderCount
  /\ pc = [i \in Instances |-> "configure"]
  /\ err = [i \in Instances |-> NoError]
  /\ host = [i \in Instances |-> "none"]
  /\ netreq = [i \in Instances |-> "none"]
  /\ signals = [s \in States |-> [i \in Instances |-> 0]]
  /\ providerTopic = <<>>
  /\ blockTopic = <<>>
  /\ bstore = [i \in Instances |-> {}]
  /\ idx = [i \in Instances |-> 0]
  /\ blk = [i \in Instances |-> 0]
  /\ generated = [i \in Instances |-> <<>>]
  /\ ai = [i \in Instances |-> 0]
  /\ conns = [i \in Instances |-> <<>>]
  /\ bsub = [i \in Instances |-> FALSE]
  /\ recvd = [i \in Instances |-> <<>>]
  /\ log = [i \in Instances |-> <<>>]
  /\ nfaults = 0

\* ---- the sync service as the plan uses it ---------------------------------
\* SignalEntry: one more entry on the state, made by instance i.
SignalEntry(state, i) ==
  signals' = [signals EXCEPT ![state][i] = @ + 1]

\* Barrier: the wait half of SignalAndWait is over once the counter has
\* reached the target.
BarrierReached(state, target) == Count(state) >= target

\* A failure may be injected while the budget lasts.
MayFail == nfaults < MaxFaults
Fail == nfaults' = nfaults + 1

\* runSpeedTest returns e: the deferred h.Close() runs if the host exists.
Return(i, e) ==
  /\ pc' = [pc EXCEPT ![i] = "returned"]
  /\ err' = [err EXCEPT ![i] = e]
  /\ host' = [host EXCEPT ![i] = IF @ = "open" THEN "closed" ELSE @]

\* ---- runSpeedTest ---------------------------------------------------------
\* MustConfigureNetwork, first half: the config (CallbackState
\* networkState) is handed to the sidecar of the instance.
ConfigureNetwork(i) ==
  /\ pc[i] = "configure"
  /\ netreq' = [netreq EXCEPT ![i] = "requested"]
  /\ pc' = [pc EXCEPT ![i] = "netwait"]
  /\ UNCHANGED <<role, blockCount, providerCount, err, host, signals,
                 providerTopic, blockTopic, bstore, idx, blk, generated, ai,
                 conns, bsub, recvd, log, nfaults>>

\* The sidecar applies the shape to instance i and signals the callback
\* state once for it.
SidecarApply(i) ==
  /\ netreq[i] = "requested"
  /\ netreq' = [netreq EXCEPT ![i] = "applied"]
  /\ SignalEntry(networkState, i)
  /\ UNCHANGED <<role, blockCount, providerCount, pc, err, host,
                 providerTopic, blockTopic, bstore, idx, blk, generated, ai,
                 conns, bsub, recvd, log, nfaults>>

\* CallbackTarget: runenv.TestGroupInstanceCount.
NetworkCallbackReached(i) ==
  BarrierReached(networkState, TestGroupInstanceCount(i))

\* MustConfigureNetwork, second half: the wait on the callback state.
NetworkConfigured(i) ==
  /\ pc[i] = "netwait"
  /\ NetworkCallbackReached(i)
  /\ pc' = [pc EXCEPT ![i] = "newhost"]
  /\ UNCHANGED <<role, blockCount, providerCount, err, host, netreq, signals,
                 providerTopic, blockTopic, bstore, idx, blk, generated, ai,
                 conns, bsub, recvd, log, nfaults>>

\* The listen address, libp2p.New, dht.New, the blockstore and bitswap.New:
\* the host listens from here on, or one of the constructors fails.
NewHost(i) ==
  /\ pc[i] = "newhost"
  /\ \/ /\ host' = [host EXCEPT ![i] = "open"]
        /\ pc' = [pc EXCEPT ![i] = "dispatch"]
        /\ UNCHANGED <<err, nfaults>>
     \/ /\ MayFail
        /\ Fail
        /\ Return(i, PlainError("host"))
  /\ UNCHANGED <<role, blockCount, providerCount, netreq, signals,
                 providerTopic, blockTopic, bstore, idx, blk, generated, ai,
                 conns, bsub, recvd, log>>

\* The default case runs the requestor.
Dispatch_DefaultRequestor(i) ==
  /\ pc[i] = "dispatch"
  /\ \/ /\ role[i] = "providers"
        /\ pc' = [pc EXCEPT ![i] = "p_announce"]
     \/ /\ role[i] # "providers"
        /\ pc' = [pc EXCEPT ![i] = "r_subscribe"]
  /\ UNCHANGED <<role, blockCount, providerCount, err, host, netreq, signals,
                 providerTopic, blockTopic, bstore, idx, blk, generated, ai,
                 conns, bsub, recvd, log, nfaults>>

\* switch runenv.TestGroupID
Dispatch(i) ==
  /\ pc[i] = "dispatch"
  /\ \/ /\ role[i] = "providers"
        /\ pc' = [pc EXCEPT ![i] = "p_announce"]
        /\ UNCHANGED <<err, host>>
     \/ /\ role[i] = "requestors"
        /\ pc' = [pc EXCEPT ![i] = "r_subscribe"]
        /\ UNCHANGED <<err, host>>
     \/ /\ role[i] \notin {"providers", "requestors"}
        /\ Return(i, PlainError("unknown test group id"))
  /\ UNCHANGED <<role, blockCount, providerCount, netreq, signals,
                 providerTopic, blockTopic, bstore, idx, blk, generated, ai,
                 conns, bsub, recvd, log, nfaults>>

\* ---- runProvide -----------------------------------------------------------
\* client.MustPublish(ctx, providerTopic, &ai)
PublishIdentity(i) ==
  /\ pc[i] = "p_announce"
  /\ providerTopic' = Append(providerTopic, [ID |-> i])
  /\ pc' = [pc EXCEPT ![i] = "p_signal_ready"]
  /\ UNCHANGED <<role, blockCount, providerCount, err, host, netreq, signals,
                 blockTopic, bstore, idx, blk, generated, ai, conns, bsub,
                 recvd, log, nfaults>>

\* MustSignalAndWait(ctx, readyState, ...): the signal.
ProvideSignalReady(i) ==
  /\ pc[i] = "p_signal_ready"
  /\ SignalEntry(readyState, i)
  /\ pc' = [pc EXCEPT ![i] = "p_wait_ready"]
  /\ UNCHANGED <<role, blockCount, providerCount, err, host, netreq,
                 providerTopic, blockTopic, bstore, idx, blk, generated, ai,
                 conns, bsub, recvd, log, nfaults>>

\* The target is the size of the providers' group only.
ProvideReadyReached_Group ==
  BarrierReached(readyState,
                 Cardinality({j \in Instances : role[j] = "providers"}))

ProvideReadyReached == BarrierReached(readyState, TestInstanceCount)

\* MustSignalAndWait(ctx, readyState, ...): the wait; then i := 0.
ProvideWaitReady(i) ==
  /\ pc[i] = "p_wait_ready"
  /\ ProvideReadyReached
  /\ idx' = [idx EXCEPT ![i] = 0]
  /\ pc' = [pc EXCEPT ![i] = "p_put"]
  /\ UNCHANGED <<role, blockCount, providerCount, err, host, netreq, signals,
                 providerTopic, blockTopic, bstore, blk, generated, ai,
                 conns, bsub, recvd, log, nfaults>>

\* The loop stops one block early.
InBlockLoop_Strict(i) == idx[i] < blockCount - 1

\* The condition of both block loops: i <= blockCount - 1.
InBlockLoop(i) == idx[i] <= blockCount - 1

\* The handle is published before the Put is tried.
PutBlock_PublishFirst(i) ==
  /\ pc[i] = "p_put"
  /\ InBlockLoop(i)
  /\ \E buf \in Contents :
       \/ /\ blk' = [blk EXCEPT ![i] = buf]
          /\ bstore' = [bstore EXCEPT ![i] = @ \cup {buf}]
          /\ generated' = [generated EXCEPT ![i] = Append(@, Multihash(buf))]
          /\ pc' = [pc EXCEPT ![i] = "p_publish"]
          /\ UNCHANGED <<err, host, nfaults, blockTopic>>
       \/ /\ MayFail
          /\ Fail
          /\ blockTopic' = Append(blockTopic,
               [mh |-> Multihash(buf), from |-> i, seq |-> idx[i]])
          /\ Return(i, PlainError("put"))
          /\ UNCHANGED <<blk, bstore, generated>>
  /\ UNCHANGED <<role, blockCount, providerCount, netreq, signals,
                 providerTopic, idx, ai, conns, bsub, recvd, log>>

\* One iteration up to the Put: a random block is made and stored, or the
\* Put fails and runProvide returns its error.
PutBlock(i) ==
  /\ pc[i] = "p_put"
  /\ InBlockLoop(i)
  /\ \/ \E buf \in Contents :
          /\ blk' = [blk EXCEPT ![i] = buf]
          /\ bstore' = [bstore EXCEPT ![i] = @ \cup {buf}]
          /\ generated' = [generated EXCEPT ![i] = Append(@, Multihash(buf))]
          /\ pc' = [pc EXCEPT ![i] = "p_publish"]
          /\ UNCHANGED <<err, host, nfaults>>
     \/ /\ MayFail
        /\ Fail
        /\ Return(i, PlainError("put"))
        /\ UNCHANGED <<blk, bstore, generated>>
  /\ UNCHANGED <<role, blockCount, providerCount, netreq, signals,
                 providerTopic, blockTopic, idx, ai, conns, bsub, recvd, log>>

\* The entry a provider adds to the block topic: the multihash (from and
\* seq tell the entries of the stream apart; no instance reads them).
BlockEntry(i) == [mh |-> Multihash(blk[i]), from |-> i, seq |-> idx[i]]

\* The rest of the iteration: client.MustPublish(ctx, blockTopic, &mh); i++.
PublishBlock(i) ==
  /\ pc[i] = "p_publish"
  /\ blockTopic' = Append(blockTopic, BlockEntry(i))
  /\ idx' = [idx EXCEPT ![i] = @ + 1]
  /\ pc' = [pc EXCEPT ![i] = "p_put"]
  /\ UNCHANGED <<role, blockCount, providerCount, err, host, netreq, signals,
                 providerTopic, bstore, blk, generated, ai, conns, bsub,
                 recvd, log, nfaults>>

\* The loop is over; MustSignalAndWait(ctx, readyDLState, ...): the signal.
ProvideSignalReadyDL(i) ==
  /\ pc[i] = "p_put"
  /\ ~InBlockLoop(i)
  /\ SignalEntry(readyDLState, i)
  /\ pc' = [pc EXCEPT ![i] = "p_wait_readydl"]
  /\ UNCHANGED <<role, blockCount, providerCount, err, host, netreq,
                 providerTopic, blockTopic, bstore, idx, blk, generated, ai,
                 conns, bsub, recvd, log, nfaults>>

ProvideReadyDLReached == BarrierReached(readyDLState, TestInstanceCount)

\* The wait on readyDLState, then the signal of
\* MustSignalAndWait(ctx, doneState, ...).
ProvideSignalDone(i) ==
  /\ pc[i] = "p_wait_readydl"
  /\ ProvideReadyDLReached
  /\ SignalEntry(doneState, i)
  /\ pc' = [pc EXCEPT ![i] = "p_wait_done"]
  /\ UNCHANGED <<role, blockCount, providerCount, err, host, netreq,
                 providerTopic, blockTopic, bstore, idx, blk, generated, ai,
                 conns, bsub, recvd, log, nfaults>>

\* The target is the size of the providers' group only.
ProvideDoneReached_Group ==
  BarrierReached(doneState,
                 Cardinality({j \in Instances : role[j] = "providers"}))

\* The wait needs one signal more than there are instances.
ProvideDoneReached_Strict == Count(doneState) > TestInstanceCount

ProvideDoneReached == BarrierReached(doneState, TestInstanceCount)

\* The wait on doneState; return nil.
ProvideReturn(i) ==
  /\ pc[i] = "p_wait_done"
  /\ ProvideDoneReached
  /\ Return(i, NoError)
  /\ UNCHANGED <<role, blockCount, providerCount, netreq, signals,
                 providerTopic, blockTopic, bstore, idx, blk, generated, ai,
                 conns, bsub, recvd, log, nfaults>>

\* ---- runRequest -----------------------------------------------------------
\* client.Subscribe(ctx, providerTopic, providers); i := 0.
\* (providerSub.Done() only returns the subscription's error channel.)
SubscribeProviders(i) ==
  /\ pc[i] = "r_subscribe"
  /\ \/ /\ idx' = [idx EXCEPT ![i] = 0]
        /\ pc' = [pc EXCEPT ![i] = "r_collect"]
        /\ UNCHANGED <<err, host, nfaults>>
     \/ /\ MayFail
        /\ Fail
        /\ Return(i, PlainError("subscribe"))
        /\ UNCHANGED idx
  /\ UNCHANGED <<role, blockCount, providerCount, netreq, signals,
                 providerTopic, blockTopic, bstore, blk, generated, ai,
                 conns, bsub, recvd, log>>

\* The loop runs once more.
InProviderLoop_Inclusive(i) == idx[i] <= providerCount

\* The loop stops one provider early.
InProviderLoop_Strict(i) == idx[i] < providerCount - 1

\* The condition of the provider loop: i <= providerCount - 1.
InProviderLoop(i) == idx[i] <= providerCount - 1

\* ai := <-providers: the subscription delivers the entries of the topic
\* from the first on, one per iteration.
ReceiveIdentity(i) ==
  /\ pc[i] = "r_collect"
  /\ InProviderLoop(i)
  /\ idx[i] < Len(providerTopic)
  /\ ai' = [ai EXCEPT ![i] = providerTopic[idx[i] + 1].ID]
  /\ pc' = [pc EXCEPT ![i] = "r_connect"]
  /\ UNCHANGED <<role, blockCount, providerCount, err, host, netreq, signals,
                 providerTopic, blockTopic, bstore, idx, blk, generated,
                 conns, bsub, recvd, log, nfaults>>

\* h.Connect(ctx, *ai): it succeeds only while the peer's host listens.
Connect(i) ==
  /\ pc[i] = "r_connect"
  /\ \/ /\ host[ai[i]] = "open"
        /\ conns' = [conns EXCEPT ![i] = Append(@, ai[i])]
        /\ idx' = [idx EXCEPT ![i] = @ + 1]
        /\ pc' = [pc EXCEPT ![i] = "r_collect"]
        /\ UNCHANGED <<err, host, nfaults>>
     \/ /\ \/ host[ai[i]] # "open" /\ UNCHANGED nfaults
           \/ host[ai[i]] = "open" /\ MayFail /\ Fail
        /\ \E p \in {0, ai[i]} : Return(i, ConnectError(p))
        /\ UNCHANGED <<conns, idx>>
  /\ UNCHANGED <<role, blockCount, providerCount, netreq, signals,
                 providerTopic, blockTopic, bstore, blk, generated, ai,
                 bsub, recvd, log>>

\* The loop is over; MustSignalAndWait(ctx, readyState, ...): the signal.
RequestSignalReady(i) ==
  /\ pc[i] = "r_collect"
  /\ ~InProviderLoop(i)
  /\ SignalEntry(readyState, i)
  /\ pc' = [pc EXCEPT ![i] = "r_wait_ready"]
  /\ UNCHANGED <<role, blockCount, providerCount, err, host, netreq,
                 providerTopic, blockTopic, bstore, idx, blk, generated, ai,
                 conns, bsub, recvd, log, nfaults>>

RequestReadyReached == BarrierReached(readyState, TestInstanceCount)

\* The wait on readyState, then the signal of
\* MustSignalAndWait(ctx, readyDLState, ...).
RequestSignalReadyDL(i) ==
  /\ pc[i] = "r_wait_ready"
  /\ RequestReadyReached
  /\ SignalEntry(readyDLState, i)
  /\ pc' = [pc EXCEPT ![i] = "r_wait_readydl"]
  /\ UNCHANGED <<role, blockCount, providerCount, err, host, netreq,
                 providerTopic, blockTopic, bstore, idx, blk, generated, ai,
                 conns, bsub, recvd, log, nfaults>>

\* The target is the size of the requestors' group only.
RequestReadyDLReached_Group ==
  BarrierReached(readyDLState,
                 Cardinality({j \in Instances : role[j] = "requestors"}))

RequestReadyDLReached == BarrierReached(readyDLState, TestInstanceCount)

\* The wait on readyDLState, then client.Subscribe(ctx, blockTopic,
\* blkmhs); i := 0.
SubscribeBlocks(i) ==
  /\ pc[i] = "r_wait_readydl"
  /\ RequestReadyDLReached
  /\ \/ /\ bsub' = [bsub EXCEPT ![i] = TRUE]
        /\ idx' = [idx EXCEPT ![i] = 0]
        /\ pc' = [pc EXCEPT ![i] = "r_recv"]
        /\ UNCHANGED <<err, host, nfaults>>
     \/ /\ MayFail
        /\ Fail
        /\ Return(i, WrapError("could not subscribe to block sub", "subscribe"))
        /\ UNCHANGED <<bsub, idx>>
  /\ UNCHANGED <<role, blockCount, providerCount, netreq, signals,
                 providerTopic, blockTopic, bstore, blk, generated, ai,
                 conns, recvd, log>>

\* The subscription delivers the newest entries first.
NextBlockEntry_Newest(i) == blockTopic[Len(blockTopic) - Len(recvd[i])]

\* What <-blkmhs delivers next: the entries of the topic, from the first
\* on, in the order of the topic.
NextBlockEntry(i) == blockTopic[Len(recvd[i]) + 1]

\* mh := <-blkmhs
ReceiveBlockEntry(i) ==
  /\ pc[i] = "r_recv"
  /\ InBlockLoop(i)
  /\ Len(recvd[i]) < Len(blockTopic)
  /\ recvd' = [recvd EXCEPT ![i] = Append(@, NextBlockEntry(i))]
  /\ pc' = [pc EXCEPT ![i] = "r_getblock"]
  /\ UNCHANGED <<role, blockCount, providerCount, err, host, netreq, signals,
                 providerTopic, blockTopic, bstore, idx, blk, generated, ai,
                 conns, bsub, log, nfaults>>

\* The multihash the running iteration received.
CurrentMh(i) == recvd[i][Len(recvd[i])].mh

Range(s) == {s[k] : k \in 1..Len(s)}

\* The blocks bitswap can get for cid c: those in the blockstore of a
\* connected peer whose host is still up.
Obtainable(i, c) ==
  {b \in Contents :
     \E j \in Range(conns[i]) : host[j] = "open" /\ b \in bstore[j] /\ Cid(b) = c}

SingleDownloadSpeed(c) == [kind |-> "single", Cid |-> c, BlockCount |-> -1]
MultipleDownloadSpeed(n) == [kind |-> "multiple", Cid |-> <<>>, BlockCount |-> n]

\* The error has lost the block index.
GetBlockError_NoIndex(i) ==
  BlockError("could not download get block", -1, CurrentMh(i), "getblock")

\* fmt.Errorf("could not download get block[%d] %s: %w", i, mh.String(), err)
GetBlockError(i) ==
  BlockError("could not download get block", idx[i], CurrentMh(i), "getblock")

\* ex.GetBlock(ctx, cid.NewCidV0(*mh)): blocks until a peer sends the
\* block, which bitswap also keeps in the local blockstore; then the
\* single-download stat is recorded and i++. Or GetBlock fails.
GetBlock(i) ==
  /\ pc[i] = "r_getblock"
  /\ \/ \E b \in Obtainable(i, NewCidV0(CurrentMh(i))) :
          /\ bstore' = [bstore EXCEPT ![i] = @ \cup {b}]
          /\ log' = [log EXCEPT ![i] = Append(@, SingleDownloadSpeed(Cid(b)))]
          /\ idx' = [idx EXCEPT ![i] = @ + 1]
          /\ pc' = [pc EXCEPT ![i] = "r_recv"]
          /\ UNCHANGED <<err, host, nfaults>>
     \/ /\ MayFail
        /\ Fail
        /\ Return(i, GetBlockError(i))
        /\ UNCHANGED <<bstore, log, idx>>
  /\ UNCHANGED <<role, blockCount, providerCount, netreq, signals,
                 providerTopic, blockTopic, blk, generated, ai, conns, bsub,
                 recvd>>

\* The aggregate stat reports the index of the last block.
AggregateBlockCount_LastIndex == blockCount - 1

\* The BlockCount the aggregate stat reports.
AggregateBlockCount == blockCount

\* The loop is over: the multiple-download stat is recorded.
RecordAggregate(i) ==
  /\ pc[i] = "r_recv"
  /\ ~InBlockLoop(i)
  /\ log' = [log EXCEPT ![i] = Append(@, MultipleDownloadSpeed(AggregateBlockCount))]
  /\ pc' = [pc EXCEPT ![i] = "r_signal_done"]
  /\ UNCHANGED <<role, blockCount, providerCount, err, host, netreq, signals,
                 providerTopic, blockTopic, bstore, idx, blk, generated, ai,
                 conns, bsub, recvd, nfaults>>

\* client.MustSignalEntry(ctx, doneState); return nil.
\* The signal is sent only once every other instance has signalled done.
RequestSignalDone_Wait(i) ==
  /\ pc[i] = "r_signal_done"
  /\ Count(doneState) >= TestInstanceCount - 1
  /\ SignalEntry(doneState, i)
  /\ Return(i, NoError)
  /\ UNCHANGED <<role, blockCount, providerCount, netreq, providerTopic,
                 blockTopic, bstore, idx, blk, generated, ai, conns, bsub,
                 recvd, log, nfaults>>

\* _ = client.MustSignalEntry(ctx, doneState); return nil.
RequestSignalDone(i) ==
  /\ pc[i] = "r_signal_done"
  /\ SignalEntry(doneState, i)
  /\ Return(i, NoError)
  /\ UNCHANGED <<role, blockCount, providerCount, netreq, providerTopic,
                 blockTopic, bstore, idx, blk, generated, ai, conns, bsub,
                 recvd, log, nfaults>>

\* ---- the specification ----------------------------------------------------
Step(i) ==
  \/ ConfigureNetwork(i)
  \/ NetworkConfigured(i)
  \/ NewHost(i)
  \/ Dispatch(i)
  \/ PublishIdentity(i)
  \/ ProvideSignalReady(i)
  \/ ProvideWaitReady(i)
  \/ PutBlock(i)
  \/ PublishBlock(i)
  \/ ProvideSignalReadyDL(i)
  \/ ProvideSignalDone(i)
  \/ ProvideReturn(i)
  \/ SubscribeProviders(i)
  \/ ReceiveIdentity(i)
  \/ Connect(i)
  \/ RequestSignalReady(i)
  \/ RequestSignalReadyDL(i)
  \/ SubscribeBlocks(i)
  \/ ReceiveBlockEntry(i)
  \/ GetBlock(i)
  \/ RecordAggregate(i)
  \/ RequestSignalDone(i)

Next ==
  \/ \E i \in Instances : Step(i)
  \/ \E i \in Instances : SidecarApply(i)

Spec == Init /\ [][Next]_vars

\* Fair scheduling: every instance is a process of its own that keeps
\* running, and so is the sidecar of every instance.
FairSpec ==
  /\ Spec
  /\ \A i \in Instances : WF_vars(Step(i)) /\ WF_vars(SidecarApply(i))

\* ---- the claims -----------------------------------------------------------
Providers == {i \in Instances : role[i] = "providers"}
Requestors == {i \in Instances : role[i] = "requestors"}
Signalled(state, i) == signals[state][i] >= 1
ReturnedOK(i) == pc[i] = "returned" /\ err[i] = NoError
Failed(i) == pc[i] = "returned" /\ err[i] # NoError
\* The entries of the block topic that provider p published, in order.
PublishedBy(p) == SelectSeq(blockTopic, LAMBDA e : e.from = p)
\* The entries requestor r received that provider p published, in order.
ReceivedFrom(r, p) == SelectSeq(recvd[r], LAMBDA e : e.from = p)
\* Requestor r has subscribed to the block topic or started a fetch.
FetchStarted(r) ==
  \/ bsub[r]
  \/ recvd[r] # <<>>
  \/ log[r] # <<>>
  \/ pc[r] \in {"r_recv", "r_getblock", "r_signal_done"}

\* C1: no requestor subscribes to the block topic or starts a fetch before
\* every instance of the run has signalled the ready-to-download barrier.
C1_NoFetchBeforeAllReadyDL ==
  \A r \in Requestors :
    FetchStarted(r) => \A j \in Instances : Signalled(readyDLState, j)

\* C1 witness: a requestor has fetched a block while a provider is in the run.
C1_Witness ==
  \E r \in Requestors : \E p \in Providers :
    /\ Len(log[r]) >= 1
    /\ log[r][1].kind = "single"
    /\ recvd[r][1].from = p

\* C2: a provider that has signalled ready-to-download has put block_count
\* blocks into its blockstore and published block_count handles.
C2_ReadyDLAfterAllStoredAndPublished ==
  \A p \in Providers :
    Signalled(readyDLState, p) =>
      /\ Len(generated[p]) = blockCount
      /\ Len(PublishedBy(p)) = blockCount
      /\ \A k \in 1..blockCount :
           /\ \E b \in bstore[p] : Multihash(b) = generated[p][k]
           /\ PublishedBy(p)[k].mh = generated[p][k]

\* C2 witness: a provider has signalled ready-to-download after two blocks.
C2_Witness ==
  \E p \in Providers :
    /\ Signalled(readyDLState, p)
    /\ blockCount = 2
    /\ Len(PublishedBy(p)) = 2

\* C3, as stated: once a provider has signalled the done barrier, every
\* requestor has received its block_count handles (in a run without failure).
C3_SignalDoneAfterHandlesObserved ==
  nfaults = 0 =>
    \A p \in Providers : \A r \in Requestors :
      Signalled(doneState, p) => Len(recvd[r]) = blockCount

\* C3, amended: a requestor never receives more than block_count handles,
\* has received exactly block_count of them when it signals done, and no
\* provider passes the done barrier before every requestor has received
\* exactly block_count handles.
C3_HandlesObservedBeforeDonePassed ==
  /\ \A r \in Requestors :
       /\ Len(recvd[r]) <= blockCount
       /\ Signalled(doneState, r) => Len(recvd[r]) = blockCount
  /\ \A p \in Providers :
       ReturnedOK(p) => \A r \in Requestors : Len(recvd[r]) = blockCount

\* C3 witness: a provider has passed the done barrier of a run with a
\* requestor and two blocks.
C3_Witness ==
  \E p \in Providers : \E r \in Requestors :
    ReturnedOK(p) /\ blockCount = 2 /\ Len(recvd[r]) = 2

\* C4: the handles a requestor receives are the entries of the block topic
\* in order; with one provider the k-th is the k-th block that provider
\* stored and published, and with several the handles of each provider are
\* received in the order that provider generated them.
C4_PublishOrderPreserved ==
  \A r \in Requestors :
    /\ \A k \in 1..Len(recvd[r]) : recvd[r][k] = blockTopic[k]
    /\ \A p \in Providers :
         /\ Cardinality(Providers) = 1 =>
              \A k \in 1..Len(recvd[r]) :
                /\ recvd[r][k].mh = generated[p][k]
                /\ recvd[r][k] = PublishedBy(p)[k]
         /\ \A k \in 1..Len(ReceivedFrom(r, p)) :
              /\ ReceivedFrom(r, p)[k].mh = generated[p][k]
              /\ ReceivedFrom(r, p)[k].seq = k - 1

\* C4 witness: a requestor has received two different handles of the one
\* provider of its run.
C4_Witness ==
  \E r \in Requestors :
    /\ Cardinality(Providers) = 1
    /\ Len(recvd[r]) = 2
    /\ recvd[r][1].mh # recvd[r][2].mh

\* C5: a provider whose Put failed for block i has exactly the handles of
\* its blocks 0..i-1 on the topic, has signalled neither ready-to-download
\* nor done, and has returned an error.
C5_PutFailureStopsProvider ==
  \A p \in Providers :
    err[p] = PlainError("put") =>
      /\ pc[p] = "returned"
      /\ idx[p] < blockCount
      /\ Len(PublishedBy(p)) = idx[p]
      /\ \A k \in 1..Len(PublishedBy(p)) :
           /\ PublishedBy(p)[k].seq = k - 1
           /\ PublishedBy(p)[k].mh = generated[p][k]
      /\ Len(generated[p]) = idx[p]
      /\ ~Signalled(readyDLState, p)
      /\ ~Signalled(doneState, p)

\* C5 witness: the Put of the second block of a provider has failed.
C5_Witness ==
  \E p \in Providers :
    err[p] = PlainError("put") /\ idx[p] = 1 /\ Len(PublishedBy(p)) = 1

\* A run as C6 describes it: at least one provider and one requestor, every
\* instance in one of the two groups, provider_count the number of providers.
GoodRun ==
  /\ Providers # {}
  /\ Requestors # {}
  /\ Providers \cup Requestors = Instances
  /\ providerCount = Cardinality(Providers)
\* Some collaborator has failed.
SomeFailure == nfaults > 0 \/ \E i \in Instances : Failed(i)
\* Every instance has returned nil, every requestor after its done signal.
AllReturnedOK ==
  /\ \A i \in Instances : ReturnedOK(i)
  /\ \A r \in Requestors : Signalled(doneState, r)
  /\ \A s \in {readyState, readyDLState, doneState} :
       Count(s) >= TestInstanceCount

\* C6: under fair scheduling, a run with providers and requestors only and
\* provider_count the number of providers ends with every instance having
\* returned nil, unless a collaborator fails.
C6_GoodRunTerminates == GoodRun => <>(AllReturnedOK \/ SomeFailure)

\* C6 witness: such a run with two blocks has ended, every instance with nil.
C6_Witness == GoodRun /\ AllReturnedOK /\ ~SomeFailure /\ blockCount = 2

\* C7: a requestor that returned nil recorded one single-download stat per
\* received handle, in order of arrival and naming that handle, then one
\* aggregate stat with BlockCount = block_count, and signalled done once;
\* the aggregate stat and the done signal come only after the last fetch.
C7_MeasurementsThenAggregateThenDone ==
  \A r \in Requestors :
    /\ ReturnedOK(r) =>
         /\ Len(recvd[r]) = blockCount
         /\ log[r] = [k \in 1..(blockCount + 1) |->
                        IF k <= blockCount
                        THEN SingleDownloadSpeed(NewCidV0(recvd[r][k].mh))
                        ELSE MultipleDownloadSpeed(blockCount)]
         /\ signals[doneState][r] = 1
    /\ \A k \in 1..Len(log[r]) :
         log[r][k].kind = "multiple" => k = blockCount + 1 /\ idx[r] = blockCount
    /\ Signalled(doneState, r) =>
         /\ Len(log[r]) = blockCount + 1
         /\ log[r][blockCount + 1].kind = "multiple"
         /\ idx[r] = blockCount

\* C7 witness: a requestor has returned nil after fetching two blocks.
C7_Witness ==
  \E r \in Requestors : ReturnedOK(r) /\ blockCount = 2 /\ Len(log[r]) = 3

\* C8: a provider has passed the done barrier only if every requestor has
\* completed its fetches and signalled done, and every provider has
\* signalled done.
C8_DonePassedAfterAllDone ==
  \A p \in Providers :
    ReturnedOK(p) =>
      /\ \A r \in Requestors :
           /\ Signalled(doneState, r)
           /\ Len(log[r]) = blockCount + 1
           /\ idx[r] = blockCount
      /\ \A q \in Providers : Signalled(doneState, q)
      /\ \A j \in Instances : pc[j] \notin {"r_recv", "r_getblock"}

\* C8 witness: a provider has closed its host after the done barrier of a
\* run with a requestor that fetched a block.
C8_Witness ==
  \E p \in Providers : \E r \in Requestors :
    ReturnedOK(p) /\ host[p] = "closed" /\ blockCount >= 1 /\ Len(log[r]) >= 2

\* C9: with provider_count = 0 a requestor receives no identity, attempts
\* no connection, and its step after subscribing is the signal on the ready
\* barrier.
C9_NoProvidersNoConnect ==
  /\ [](providerCount = 0 =>
          \A r \in Requestors :
            /\ ai[r] = 0
            /\ conns[r] = <<>>
            /\ pc[r] # "r_connect"
            /\ err[r].msg # "could not connect to provider")
  /\ [][\A r \in Requestors :
          (providerCount = 0 /\ pc[r] = "r_collect" /\ pc'[r] # pc[r]) =>
            /\ pc'[r] = "r_wait_ready"
            /\ signals'[readyState][r] = signals[readyState][r] + 1]_vars

\* C9 witness: with provider_count = 0 a requestor has signalled ready while
\* the identity of a provider was on the topic.
C9_Witness ==
  \E r \in Requestors :
    /\ providerCount = 0
    /\ providerTopic # <<>>
    /\ pc[r] = "r_wait_ready"

\* The groups runSpeedTest dispatches on.
KnownGroup(i) == role[i] \in {"providers", "requestors"}

\* C10, as stated: an instance of an unknown group has returned its error
\* without a network-shaping request, without a host and without a signal.
C10_UnknownRoleNoNetworkAction ==
  \A i \in Instances :
    (~KnownGroup(i) /\ Failed(i) /\ err[i].msg = "unknown test group id") =>
      /\ netreq[i] = "none"
      /\ host[i] = "none"
      /\ \A s \in States : signals[s][i] = 0

\* C10, amended: an instance of an unknown group publishes to no topic,
\* subscribes to none, connects to nobody and signals none of the ready,
\* ready-to-download and done barriers; it returns the configuration error
\* after it has requested the network shape and created its host.
C10_UnknownRoleNoCoordination ==
  \A i \in Instances :
    ~KnownGroup(i) =>
      /\ \A s \in {readyState, readyDLState, doneState} : signals[s][i] = 0
      /\ \A k \in 1..Len(providerTopic) : providerTopic[k].ID # i
      /\ \A k \in 1..Len(blockTopic) : blockTopic[k].from # i
      /\ ~bsub[i] /\ conns[i] = <<>> /\ ai[i] = 0
      /\ pc[i] \in {"configure", "netwait", "newhost", "dispatch", "returned"}
      /\ pc[i] = "returned" => Failed(i)
      /\ err[i].msg = "unknown test group id" =>
           netreq[i] # "none" /\ host[i] = "closed"

\* C10 witness: an instance of an unknown group has returned the error.
C10_Witness ==
  \E i \in Instances :
    ~KnownGroup(i) /\ pc[i] = "returned" /\ err[i].msg = "unknown test group id"

\* C11: no instance is past the network configuration before the
\* network-configured state has been signalled for every instance of the run
\* (stated for the runs made of providers and requestors only).
C11_ProceedOnlyAfterAllConfigured ==
  Providers \cup Requestors = Instances =>
    \A i \in Instances :
      pc[i] \notin {"configure", "netwait"} =>
        \A j \in Instances : Signalled(networkState, j)

\* The barrier state instance j waits on, if it is blocked in the wait of a
\* MustSignalAndWait.
BlockedOn(j, s) ==
  \/ s = readyState /\ pc[j] \in {"p_wait_ready", "r_wait_ready"}
  \/ s = readyDLState /\ pc[j] \in {"p_wait_readydl", "r_wait_readydl"}
  \/ s = doneState /\ pc[j] = "p_wait_done"
\* State s can no longer reach TestInstanceCount: an instance has returned
\* an error without a signal on it.
Stuck(s) == \E k \in Instances : Failed(k) /\ ~Signalled(s, k)

\* C12: an instance blocked on a barrier that an instance which returned an
\* error never signalled does not stay blocked forever: while it is
\* blocked the run can still take a step (stated for the runs made of
\* providers and requestors only).
C12_StuckBarrierAborts ==
  Providers \cup Requestors = Instances =>
    \A j \in Instances : \A s \in {readyState, readyDLState, doneState} :
      (BlockedOn(j, s) /\ Stuck(s)) => ENABLED Next

\* C13: a requestor whose fetch of the i-th received handle failed has
\* returned an error with the index i and that handle; it has recorded the
\* i stats of the earlier fetches and no aggregate stat, has not signalled
\* done, and receives and fetches nothing afterwards.
C13_FetchFailureIsFatal ==
  /\ [](\A r \in Requestors :
          err[r].msg = "could not download get block" =>
            /\ pc[r] = "returned"
            /\ err[r].index = idx[r]
            /\ Len(recvd[r]) = idx[r] + 1
            /\ err[r].mh = recvd[r][idx[r] + 1].mh
            /\ err[r].cause = "getblock"
            /\ Len(log[r]) = idx[r]
            /\ \A k \in 1..Len(log[r]) : log[r][k].kind = "single"
            /\ ~Signalled(doneState, r))
  /\ [][\A r \in Requestors :
          err[r].msg = "could not download get block" =>
            /\ recvd'[r] = recvd[r]
            /\ log'[r] = log[r]
            /\ bstore'[r] = bstore[r]
            /\ pc'[r] = pc[r]]_vars

\* C13 witness: the fetch of the second handle has failed.
C13_Witness ==
  \E r \in Requestors :
    err[r].msg = "could not download get block" /\ err[r].index = 1

\* C14: a requestor whose connection to a provider failed has returned an
\* error that carries the identity of that provider; it has attempted no
\* further connection and signalled no barrier.
C14_ConnectFailureNamesProvider ==
  \A r \in Requestors :
    err[r].msg = "could not connect to provider" =>
      /\ err[r].peer = ai[r]
      /\ pc[r] = "returned"
      /\ Len(conns[r]) = idx[r]
      /\ \A s \in {readyState, readyDLState, doneState} : ~Signalled(s, r)

\* The part of C14 that does not depend on what the error carries.
C14_ConnectFailureStopsRequestor ==
  \A r \in Requestors :
    err[r].msg = "could not connect to provider" =>
      /\ pc[r] = "returned"
      /\ Len(conns[r]) = idx[r]
      /\ ai[r] = providerTopic[idx[r] + 1].ID
      /\ \A s \in {readyState, readyDLState, doneState} : ~Signalled(s, r)

\* Some provider has begun its block loop, or a block has been stored or a
\* handle published.
BlockWorkStarted ==
  \/ blockTopic # <<>>
  \/ \E p \in Providers :
       \/ pc[p] \in {"p_put", "p_publish"}
       \/ generated[p] # <<>>
       \/ bstore[p] # {}

\* The number of entries of the identity topic that name instance p.
IdentityEntries(p) ==
  Cardinality({k \in 1..Len(providerTopic) : providerTopic[k].ID = p})

\* C15: no provider stores or publishes a block before every instance has
\* signalled the ready barrier; by then every requestor has received the
\* first provider_count identities of the topic and connected to each, the
\* identity topic holds exactly one entry per provider, and it never grows
\* afterwards.
C15_BlocksOnlyAfterAllReady ==
  /\ [](BlockWorkStarted =>
          /\ \A j \in Instances : Signalled(readyState, j)
          /\ \A r \in Requestors :
               /\ Len(conns[r]) = providerCount
               /\ \A k \in 1..providerCount : conns[r][k] = providerTopic[k].ID
          /\ \A p \in Providers : IdentityEntries(p) = 1
          /\ Len(providerTopic) = Cardinality(Providers))
  /\ [][BlockWorkStarted => providerTopic' = providerTopic]_vars

\* C15 witness: a block is stored in a run of two providers and a requestor
\* that connected to both.
C15_Witness ==
  \E p \in Providers : \E r \in Requestors :
    /\ bstore[p] # {}
    /\ Cardinality(Providers) = 2
    /\ Len(conns[r]) = 2

\* C16: a requestor that has recorded its aggregate stat can signal done and
\* return whatever the other instances are doing.
C16_DoneSignalDoesNotBlock ==
  \A r \in Requestors : pc[r] = "r_signal_done" => ENABLED RequestSignalDone(r)

\* C16 witness: one requestor has signalled done and returned, another is
\* still fetching, and every provider waits on the done barrier.
C16_Witness ==
  \E r1 \in Requestors : \E r2 \in Requestors :
    /\ ReturnedOK(r1)
    /\ Signalled(doneState, r1)
    /\ pc[r2] \in {"r_recv", "r_getblock"}
    /\ Len(log[r2]) < blockCount
    /\ Providers # {}
    /\ \A p \in Providers : pc[p] = "p_wait_done"

\* The block of topic entry e is in the blockstore of its publisher.
StoredAtPublisher(e) == \E b \in bstore[e.from] : Multihash(b) = e.mh

\* C17: every handle on the block topic was published after its block was
\* put into the publisher's blockstore, so the block of a handle being
\* fetched is stored at the provider that published it; and no handle is
\* published once a requestor has subscribed to the block topic.
C17_StoredBeforePublishedBeforeFetched ==
  /\ [](/\ \A k \in 1..Len(blockTopic) : StoredAtPublisher(blockTopic[k])
        /\ \A r \in Requestors :
             pc[r] = "r_getblock" =>
               /\ recvd[r][Len(recvd[r])].from \in Providers
               /\ StoredAtPublisher(recvd[r][Len(recvd[r])]))
  /\ [][(\E r \in Requestors : FetchStarted(r)) =>
          blockTopic' = blockTopic]_vars

\* C17 witness: a requestor is fetching the second handle of a provider.
C17_Witness ==
  \E r \in Requestors :
    /\ pc[r] = "r_getblock"
    /\ Len(recvd[r]) = 2
    /\ recvd[r][2].seq = 1

\* C18: when a requestor has subscribed to the block topic the topic holds
\* P * block_count entries and gets no more; a requestor receives at most
\* block_count entries and they are the first ones of the topic, so two
\* requestors receive the same entries and the entries after the first
\* block_count are received by no one.
C18_OnlyFirstNConsumed ==
  /\ [](/\ \A r \in Requestors :
             /\ FetchStarted(r) =>
                  Len(blockTopic) = Cardinality(Providers) * blockCount
             /\ Len(recvd[r]) <= blockCount
             /\ recvd[r] = SubSeq(blockTopic, 1, Len(recvd[r]))
        /\ \A r1 \in Requestors : \A r2 \in Requestors :
             \A k \in 1..Len(recvd[r1]) :
               k <= Len(recvd[r2]) => recvd[r1][k] = recvd[r2][k]
        /\ \A k \in 1..Len(blockTopic) :
             k > blockCount =>
               \A r \in Requestors : \A n \in 1..Len(recvd[r]) :
                 recvd[r][n] # blockTopic[k])
  /\ [][\A r \in Requestors :
          FetchStarted(r) => Len(blockTopic') = Len(blockTopic)]_vars

\* C18 witness: with two providers and two blocks a requestor has returned
\* nil after two fetches while the topic holds four entries.
C18_Witness ==
  \E r \in Requestors :
    /\ Cardinality(Providers) = 2
    /\ blockCount = 2
    /\ Len(blockTopic) = 4
    /\ ReturnedOK(r)
    /\ Len(recvd[r]) = 2

\* C19: with provider_count the number of providers, every handle a
\* requestor receives to fetch was published by a provider the requestor
\* connected to, and the requestor made all its connections before it
\* signalled the ready barrier.
C19_FetchOnlyFromConnected ==
  /\ [](providerCount = Cardinality(Providers) =>
          \A r \in Requestors :
            /\ \A k \in 1..Len(recvd[r]) : recvd[r][k].from \in Range(conns[r])
            /\ Signalled(readyState, r) => Range(conns[r]) = Providers)
  /\ [][\A r \in Requestors :
          Signalled(readyState, r) => conns'[r] = conns[r]]_vars

\* C19 witness: a requestor connected to two providers has fetched a block
\* of the provider it connected to last.
C19_Witness ==
  \E r \in Requestors :
    /\ providerCount = 2
    /\ Cardinality(Providers) = 2
    /\ Len(log[r]) >= 1
    /\ log[r][1].kind = "single"
    /\ recvd[r][1].from = conns[r][2]

\* Requestor r has connected to every provider of the run and waits for one
\* more identity.
WaitsForIdentity(r) ==
  /\ pc[r] = "r_collect"
  /\ idx[r] = Cardinality(Providers)
  /\ idx[r] < providerCount

\* C20: in a run with a requestor whose provider_count exceeds the number of
\* providers, no requestor signals the ready barrier, the barrier is never
\* reached, no provider stores or publishes a block, and a requestor that
\* has used up the identities of the topic has no step left.
C20_TooFewProvidersBlocks ==
  (Requestors # {} /\ providerCount > Cardinality(Providers)) =>
    /\ \A r \in Requestors :
         /\ ~Signalled(readyState, r)
         /\ WaitsForIdentity(r) => ~ENABLED Step(r)
    /\ ~BarrierReached(readyState, TestInstanceCount)
    /\ ~BlockWorkStarted

\* C20 witness: the requestors have connected to the one provider of the
\* run and wait for a second identity while the provider waits on ready.
C20_Witness ==
  /\ providerCount = 2
  /\ Cardinality(Providers) = 1
  /\ Cardinality(Requestors) = 2
  /\ \A r \in Requestors : WaitsForIdentity(r) /\ Len(conns[r]) = 1
  /\ \A p \in Providers : pc[p] = "p_wait_ready"

====
